---- MODULE Spec2Model ----
(***************************************************************************)
(* The order-payment state machine of PaymentService                       *)
(* (src/src/services/payment.service.ts).                                  *)
(*                                                                         *)
(* Every request (HTTP call or webhook delivery) in flight is a record of  *)
(* the bag `calls'; a call advances one ledger or adapter access at a time, so *)
(* that the reads and writes of concurrent calls interleave arbitrarily.   *)
(* A request is received at its first access to mutable ledger state: the  *)
(* reads before it (the order record, whose existence, number and amount   *)
(* never change, and the signature verification) are part of that step.    *)
(* The payment and                                                         *)
(* order repositories and the gateway adapter are collaborators whose code *)
(* is not part of the service file: their operations follow sections 4.1   *)
(* to 4.3 of the specification.                                            *)
(***************************************************************************)
EXTENDS Integers, Sequences, FiniteSets, Bags, TLC

\* ---- bounds of the model ------------------------------------------------
NumOrders == 1
NumCalls == 2
MaxPayments == 2
MaxAmount == 2
MaxRequests == 3

\* ---- value domains ------------------------------------------------------
OrderIds == 1..NumOrders
\* order ids a request may carry: the existing ones and one that is missing
OrderArgs == 1..(NumOrders + 1)
PaymentArgs == 1..MaxPayments
GatewayArgs == 1..MaxPayments
RefundAmounts == 1..(MaxAmount + 1)
TxnIds == {"t1"}
NoPayment == 0
NoGateway == 0
NoOrder == 0

\* the human-facing order number of an order (unique, distinct from the id)
orderNumber(o) == 100 + o
OrderNumberArgs == {NoOrder} \cup {orderNumber(o) : o \in OrderArgs}

\* normalized webhook events: {checkoutId?, orderNumber?, transactionId}
SuccessEvents ==
    [checkoutId : {"none", "chk"}, orderNumber : OrderNumberArgs, transactionId : TxnIds]
FailureEvents ==
    [checkoutId : {"none", "chk"}, orderNumber : OrderNumberArgs,
     transactionId : {"none"} \cup TxnIds]
NoEvent == [checkoutId |-> "none", orderNumber |-> NoOrder, transactionId |-> "none"]

VARIABLES
    payments,      \* payment ledger: sequence of records, payment id = index
    orders,        \* order ledger: order id -> record
    remoteOrders,  \* gateway side: gateway order id (index) -> order id it was created for
    calls,         \* bag of the requests being served, each with its position
    findOnePick,   \* which record a single-record lookup returns when several match
    checkoutStored, \* whether the ledger keeps a checkout URL with the payments
    lastSuccess,   \* history: the last success event served alone, while no ledger changed since
    started        \* number of requests received so far

vars == <<payments, orders, remoteOrders, calls, findOnePick, checkoutStored,
          lastSuccess, started>>

\* ---- small helpers ------------------------------------------------------
SetMin(S) == CHOOSE x \in S : \A y \in S : x <= y
SetMax(S) == CHOOSE x \in S : \A y \in S : x >= y
PaymentIds == 1..Len(payments)

\* ---- payment ledger (PaymentRepository) ---------------------------------
\* create(fields): status defaults to pending; the checkout URL is an optional
\* attribute that the service neither sets nor clears
NewPayment(o, provider, amount, method) ==
    [orderId |-> o, orderNumber |-> orderNumber(o), provider |-> provider,
     amount |-> amount, method |-> method, status |-> "pending",
     razorpayOrderId |-> NoGateway, transactionId |-> "none",
     gatewayTransactionId |-> NoGateway, refundAmount |-> 0,
     refundTransactionId |-> "none", checkoutId |-> "none",
     checkoutUrl |-> IF checkoutStored THEN "url" ELSE "none"]

\* a lookup returns at most one record: the oldest or the newest match
PickOne(S) ==
    IF S = {} THEN NoPayment
    ELSE IF findOnePick = "oldest" THEN SetMin(S) ELSE SetMax(S)

getPaymentById(pid) == IF pid \in PaymentIds THEN pid ELSE NoPayment
getPaymentByOrderId(o) == PickOne({p \in PaymentIds : payments[p].orderId = o})
getPaymentByRazorpayOrderId(g) ==
    PickOne({p \in PaymentIds : payments[p].razorpayOrderId = g})
getPaymentByCheckoutId(cid) == PickOne({p \in PaymentIds : payments[p].checkoutId = cid})
getPaymentByTransactionId(t) ==
    PickOne({p \in PaymentIds : payments[p].transactionId = t})

\* updatePayment(id, {razorpayOrderId})
setGatewayOrderId(ps, pid, g) == [ps EXCEPT ![pid].razorpayOrderId = g]

\* markCompleted: sets completed; a no-op when the payment is already completed
markPaymentCompleted(ps, pid, txn, gtx, method) ==
    IF ps[pid].status = "completed" THEN ps
    ELSE [ps EXCEPT ![pid] = [@ EXCEPT !.status = "completed", !.transactionId = txn,
                                       !.gatewayTransactionId = gtx, !.method = method]]

\* markFailed: no precondition
markPaymentFailed(ps, pid) == [ps EXCEPT ![pid].status = "failed"]

\* resetToPending is only legal from failed
ResetLegal(p) == p.status = "failed"
updatePaymentStatus(ps, pid, status) == [ps EXCEPT ![pid].status = status]

\* initiateRefund is only legal from completed
RefundLegal(p) == p.status = "completed"
ledgerInitiateRefund(ps, pid, amt, rtx) ==
    [ps EXCEPT ![pid] = [@ EXCEPT !.status = "refunded", !.refundAmount = amt,
                                  !.refundTransactionId = rtx]]

\* ---- order ledger (OrderRepository) -------------------------------------
getOrderById(o) == IF o \in OrderIds THEN o ELSE NoOrder
getOrderByOrderNumber(n) ==
    IF \E o \in OrderIds : orderNumber(o) = n
    THEN CHOOSE o \in OrderIds : orderNumber(o) = n ELSE NoOrder
updateOrderStatus(os, o, status, paymentStatus) ==
    [os EXCEPT ![o] = [@ EXCEPT !.status = status, !.paymentStatus = paymentStatus]]
updateOrderPaymentId(os, o, pid) == [os EXCEPT ![o].paymentId = pid]

\* ---- calls --------------------------------------------------------------
NewCall ==
    [op |-> "none", pc |-> "new", o |-> NoOrder, ev |-> NoEvent, g |-> NoGateway,
     txn |-> "none", sig |-> FALSE, pid |-> NoPayment, amt |-> 0,
     result |-> "none", ret |-> NoPayment, retGw |-> NoGateway,
     seen |-> {}, alone |-> FALSE, dup |-> NoPayment, won |-> FALSE, wrote |-> FALSE,
     stamped |-> "none"]

Quiescent == calls = EmptyBag

\* the call r ends: a value is returned or an error is thrown
Finish(r, result, ret, gw) ==
    [r EXCEPT !.pc = "done", !.result = result, !.ret = ret, !.retGw = gw]
Throw(r, error) == Finish(r, error, NoPayment, NoGateway)

\* history fields of a call: seen, the statuses, when the request is received, of
\* the payments of the order it names, of the payment it names, or of the payments
\* the first identifying field of its event identifies; alone, whether
\* no other request has been in flight since it was received; dup, see lastSuccess;
\* won, whether its markCompleted changed the status; wrote, whether it has issued
\* a ledger write; stamped, the status that its last successful write to the payment
\* ledger asked for
StatusesOf(o) == {payments[p].status : p \in {q \in PaymentIds : payments[q].orderId = o}}

\* calls that may still create a payment record; a request that would create one
\* is received only while the ledger has room for it
MayCreate(r) == r.pc \in {"init_createOrder", "cp_create"}
Creating == BagCardinality([r \in {q \in BagToSet(calls) : MayCreate(q)} |-> calls[r]])
RoomToCreate == Len(payments) + Creating < MaxPayments

\* ---- history variables --------------------------------------------------
NoSuccess == [set |-> FALSE, ev |-> NoEvent, pid |-> NoPayment]

\* the call r becomes x (r is absent when the request is received with this step)
History(x) ==
    LET finished == /\ x.op = "success" /\ x.pc = "done" /\ x.result = "ok"
                    /\ x.alone
                    /\ payments'[x.ret].status = "completed"
        changed == payments' # payments \/ orders' # orders
    IN lastSuccess' = IF finished THEN [set |-> TRUE, ev |-> x.ev, pid |-> x.ret]
                      ELSE IF changed THEN NoSuccess
                      ELSE lastSuccess

\* A finished call hands its response over before any other call moves on: the
\* hand-over reads and writes no ledger, so no interleaving of ledger accesses is lost.
NoneDone == \A q \in BagToSet(calls) : q.pc # "done"

\* the calls in flight, each marked as having had company
Accompanied(B) ==
    LET mark(r) == [r EXCEPT !.alone = FALSE]
        copies(r) == IF r \in BagToSet(B) THEN B[r] ELSE 0
    IN [x \in {mark(r) : r \in BagToSet(B)} |->
            copies(x) + copies([x EXCEPT !.alone = TRUE])]

Begin(x) == /\ NoneDone
            /\ BagCardinality(calls) < NumCalls
            /\ MayCreate(x) => RoomToCreate
            /\ started < MaxRequests
            /\ started' = started + 1
            /\ calls' = Accompanied(calls) (+)
                           SetToBag({[x EXCEPT !.alone = (calls = EmptyBag)]})
            /\ History([x EXCEPT !.alone = (calls = EmptyBag)])

Step(r, x) == /\ NoneDone
              /\ calls' = (calls (-) SetToBag({r})) (+) SetToBag({x})
              /\ History(x)
              /\ UNCHANGED started

Init ==
    /\ payments = <<>>
    /\ orders = [o \in OrderIds |->
                    [orderNumber |-> orderNumber(o), totalAmount |-> MaxAmount,
                     status |-> "created", paymentStatus |-> "pending",
                     paymentId |-> NoPayment]]
    /\ remoteOrders = <<>>
    /\ calls = EmptyBag
    /\ findOnePick \in {"oldest", "newest"}
    /\ checkoutStored \in BOOLEAN
    /\ lastSuccess = NoSuccess
    /\ started = 0

\* ---- createPayment (lines 15-58) ----------------------------------------
\* a call is the COD flow when it declares status completed
DeclaresCompleted(r) == r.op = "cod"

CpCreate(r) ==
    /\ r.pc = "cp_create"
    /\ Len(payments) < MaxPayments
    /\ LET o == r.o
           cod == r.op = "cod"
       IN payments' = Append(payments,
                             NewPayment(o, IF cod THEN "cod" ELSE "razorpay",
                                        orders[o].totalAmount,
                                        IF cod THEN "cod" ELSE "none"))
    /\ UNCHANGED <<orders, remoteOrders, findOnePick, checkoutStored>>
    /\ Step(r, [r EXCEPT !.pid = Len(payments) + 1, !.wrote = TRUE,
                                !.pc = IF r.g # NoGateway THEN "cp_setGw"
                                       ELSE IF DeclaresCompleted(r) THEN "cp_mark"
                                       ELSE "cp_link"])

CpSetGw(r) ==
    /\ r.pc = "cp_setGw"
    /\ payments' = setGatewayOrderId(payments, r.pid, r.g)
    /\ UNCHANGED <<orders, remoteOrders, findOnePick, checkoutStored>>
    /\ Step(r, [r EXCEPT !.pc = IF DeclaresCompleted(r) THEN "cp_mark"
                                       ELSE "cp_link"])

CpMark(r) ==
    /\ r.pc = "cp_mark"
    /\ payments' = markPaymentCompleted(payments, r.pid, "cod", NoGateway, "cod")
    /\ UNCHANGED <<orders, remoteOrders, findOnePick, checkoutStored>>
    /\ Step(r, [r EXCEPT !.pc = "cp_link", !.stamped = "completed"])

CpLink(r) ==
    /\ r.pc = "cp_link"
    /\ orders' = updateOrderPaymentId(orders, r.o, r.pid)
    /\ UNCHANGED <<payments, remoteOrders, findOnePick, checkoutStored>>
    /\ Step(r, [r EXCEPT !.pc = IF r.op = "cod" THEN "cod_order"
                                       ELSE "init_order"])

\* ---- processCodPayment (lines 64-96) ------------------------------------
\* mutant: only a completed payment counts as a duplicate
CodDuplicate_OnlyCompleted(existing) ==
    existing # NoPayment /\ payments[existing].status = "completed"

\* line 72: any existing payment for the order is a duplicate
CodDuplicate(existing) == existing # NoPayment

\* lines 65-74: the order, then the existing payment
StartCod(o) ==
    /\ UNCHANGED <<payments, orders, remoteOrders, findOnePick, checkoutStored>>
    /\ LET r == [NewCall EXCEPT !.op = "cod", !.o = o, !.seen = StatusesOf(o)]
       IN Begin(IF getOrderById(o) = NoOrder THEN Throw(r, "NotFound")
                  ELSE IF CodDuplicate(getPaymentByOrderId(o))
                    THEN Throw(r, "DuplicatePayment")
                  ELSE [r EXCEPT !.pc = "cp_create"])

CodOrder(r) ==
    /\ r.pc = "cod_order"
    /\ orders' = updateOrderStatus(orders, r.o, "confirmed", "completed")
    /\ UNCHANGED <<payments, remoteOrders, findOnePick, checkoutStored>>
    /\ Step(r, Finish(r, "ok", r.pid, NoGateway))

\* ---- initiateRazorpayPayment (lines 106-166) ----------------------------
\* line 115: an existing payment that carries a gateway order id is reused
InitReuse(p) == p # NoPayment /\ payments[p].razorpayOrderId # NoGateway

\* mutant: the gateway order is created before the order is looked up
StartInitiate_GatewayFirst(o) ==
    /\ remoteOrders' = Append(remoteOrders, o)
    /\ UNCHANGED <<payments, orders, findOnePick, checkoutStored>>
    /\ LET r == [NewCall EXCEPT !.op = "initiate", !.o = o, !.seen = StatusesOf(o),
                                !.g = Len(remoteOrders) + 1]
       IN Begin(IF getOrderById(o) = NoOrder THEN Throw(r, "NotFound")
                  ELSE [r EXCEPT !.pc = "cp_create"])

\* lines 107-125: the order, then the existing payment
StartInitiate(o) ==
    /\ UNCHANGED <<payments, orders, remoteOrders, findOnePick, checkoutStored>>
    /\ LET r == [NewCall EXCEPT !.op = "initiate", !.o = o, !.seen = StatusesOf(o)]
           p == getPaymentByOrderId(o)
       IN Begin(IF getOrderById(o) = NoOrder THEN Throw(r, "NotFound")
                  ELSE IF InitReuse(p) THEN Finish(r, "ok", p, payments[p].razorpayOrderId)
                  ELSE [r EXCEPT !.pc = "init_createOrder"])

\* razorpayService.createOrder succeeds: a new remote order exists
InitCreateOrderOk(r) ==
    /\ r.pc = "init_createOrder"
    /\ remoteOrders' = Append(remoteOrders, r.o)
    /\ UNCHANGED <<payments, orders, findOnePick, checkoutStored>>
    /\ Step(r, [r EXCEPT !.g = Len(remoteOrders) + 1, !.pc = "cp_create"])

\* razorpayService.createOrder throws: caught and wrapped (lines 162-165)
InitCreateOrderFail(r) ==
    /\ r.pc = "init_createOrder"
    /\ UNCHANGED <<payments, orders, remoteOrders, findOnePick, checkoutStored>>
    /\ Step(r, Throw(r, "GatewayIntegrationFailure"))

InitOrder(r) ==
    /\ r.pc = "init_order"
    /\ orders' = updateOrderStatus(orders, r.o, "payment_pending", "pending")
    /\ UNCHANGED <<payments, remoteOrders, findOnePick, checkoutStored>>
    /\ Step(r, Finish(r, "ok", r.pid, r.g))

\* ---- verifyRazorpayPayment (lines 175-220) ------------------------------
\* mutant: the answer of the signature verification is ignored
SignatureRejected_Never(sig) == FALSE

\* line 188: the adapter found the signature invalid
SignatureRejected(sig) == ~sig

\* line 199: idempotency check of the client callback
VerifyAlreadyCompleted(p) == payments[p].status = "completed"

\* lines 182-201: the signature (the adapter answers sig), then the payment
StartVerify(g, txn, sig) ==
    /\ UNCHANGED <<payments, orders, remoteOrders, findOnePick, checkoutStored>>
    /\ LET r == [NewCall EXCEPT !.op = "verify", !.g = g, !.txn = txn, !.sig = sig]
           p == getPaymentByRazorpayOrderId(g)
       IN Begin(IF SignatureRejected(sig) THEN Throw(r, "InvalidSignature")
                  ELSE IF p = NoPayment THEN Throw(r, "NotFound")
                  ELSE IF VerifyAlreadyCompleted(p) THEN Finish(r, "ok", p, NoGateway)
                  ELSE [r EXCEPT !.pid = p, !.pc = "ver_mark"])

VerifyMark(r) ==
    /\ r.pc = "ver_mark"
    /\ payments' = markPaymentCompleted(payments, r.pid, r.txn,
                                        r.g, "razorpay")
    /\ UNCHANGED <<orders, remoteOrders, findOnePick, checkoutStored>>
    /\ Step(r, [r EXCEPT !.pc = "ver_order", !.wrote = TRUE, !.stamped = "completed",
                                !.won = payments[r.pid].status # "completed"])

VerifyOrder(r) ==
    /\ r.pc = "ver_order"
    /\ orders' = updateOrderStatus(orders, payments[r.pid].orderId,
                                   "confirmed", "completed")
    /\ UNCHANGED <<payments, remoteOrders, findOnePick, checkoutStored>>
    /\ Step(r, Finish(r, "ok", r.pid, NoGateway))

\* ---- event resolution of the webhook handlers (lines 233-242, 283-292) ---
EventStrategy(ev) ==
    IF ev.checkoutId # "none" THEN "checkoutId"
    ELSE IF ev.orderNumber # NoOrder THEN "orderNumber"
    ELSE IF ev.transactionId # "none" THEN "transactionId"
    ELSE "none"

\* the payments that the one field chosen by EventStrategy identifies
CarriedFieldMatches(ev) ==
    LET s == EventStrategy(ev)
    IN IF s = "checkoutId" THEN {p \in PaymentIds : payments[p].checkoutId = ev.checkoutId}
       ELSE IF s = "orderNumber"
         THEN {p \in PaymentIds : orderNumber(payments[p].orderId) = ev.orderNumber}
       ELSE IF s = "transactionId"
         THEN {p \in PaymentIds : payments[p].transactionId = ev.transactionId}
       ELSE {}

\* mutant: the strategies are tried in priority order until one finds a payment
ResolveEvent_FallsThrough(ev) ==
    LET order == getOrderByOrderNumber(ev.orderNumber)
        byCheckout == IF ev.checkoutId # "none"
                      THEN getPaymentByCheckoutId(ev.checkoutId) ELSE NoPayment
        byOrder == IF ev.orderNumber # NoOrder /\ order # NoOrder
                   THEN getPaymentByOrderId(order) ELSE NoPayment
        byTxn == IF ev.transactionId # "none"
                 THEN getPaymentByTransactionId(ev.transactionId) ELSE NoPayment
    IN IF byCheckout # NoPayment THEN byCheckout
       ELSE IF byOrder # NoPayment THEN byOrder
       ELSE byTxn

ResolveEvent(ev) ==
    LET s == EventStrategy(ev)
        order == getOrderByOrderNumber(ev.orderNumber)
    IN IF s = "checkoutId" THEN getPaymentByCheckoutId(ev.checkoutId)
       ELSE IF s = "orderNumber"
         THEN (IF order # NoOrder THEN getPaymentByOrderId(order) ELSE NoPayment)
       ELSE IF s = "transactionId" THEN getPaymentByTransactionId(ev.transactionId)
       ELSE NoPayment

\* ---- handlePaymentSuccess (lines 222-270) -------------------------------
\* mutant: the idempotency check is missing
SuccessAlreadyCompleted_Never(p) == FALSE

\* line 249: idempotency check of the webhook
SuccessAlreadyCompleted(p) == payments[p].status = "completed"

\* lines 231-251: the lookup and the idempotency check
StartSuccess(ev) ==
    /\ UNCHANGED <<payments, orders, remoteOrders, findOnePick, checkoutStored>>
    /\ LET r == [NewCall EXCEPT !.op = "success", !.ev = ev,
                                 !.seen = {payments[q].status : q \in CarriedFieldMatches(ev)},
                                 !.dup = IF lastSuccess.set /\ lastSuccess.ev = ev
                                         THEN lastSuccess.pid ELSE NoPayment]
           p == ResolveEvent(ev)
       IN Begin(IF p = NoPayment THEN Throw(r, "NotFound")
                  ELSE IF SuccessAlreadyCompleted(p) THEN Finish(r, "ok", p, NoGateway)
                  ELSE [r EXCEPT !.pid = p, !.pc = "suc_mark"])

SuccessMark(r) ==
    /\ r.pc = "suc_mark"
    /\ payments' = markPaymentCompleted(payments, r.pid,
                                        r.ev.transactionId, NoGateway, "upi")
    /\ UNCHANGED <<orders, remoteOrders, findOnePick, checkoutStored>>
    /\ Step(r, [r EXCEPT !.pc = "suc_order", !.wrote = TRUE, !.stamped = "completed",
                                !.won = payments[r.pid].status # "completed"])

SuccessOrder(r) ==
    /\ r.pc = "suc_order"
    /\ orders' = updateOrderStatus(orders, payments[r.pid].orderId,
                                   "confirmed", "completed")
    /\ UNCHANGED <<payments, remoteOrders, findOnePick, checkoutStored>>
    /\ Step(r, Finish(r, "ok", r.pid, NoGateway))

\* ---- handlePaymentFailure (lines 272-315) -------------------------------
\* lines 281-296: the lookup
StartFailure(ev) ==
    /\ UNCHANGED <<payments, orders, remoteOrders, findOnePick, checkoutStored>>
    /\ LET r == [NewCall EXCEPT !.op = "failure", !.ev = ev,
                                 !.seen = {payments[q].status : q \in CarriedFieldMatches(ev)}]
           p == ResolveEvent(ev)
       IN Begin(IF p = NoPayment THEN Throw(r, "NotFound")
                  ELSE [r EXCEPT !.pid = p, !.pc = "fail_mark"])

FailureMark(r) ==
    /\ r.pc = "fail_mark"
    /\ payments' = markPaymentFailed(payments, r.pid)
    /\ UNCHANGED <<orders, remoteOrders, findOnePick, checkoutStored>>
    /\ Step(r, [r EXCEPT !.pc = "fail_order", !.wrote = TRUE, !.stamped = "failed"])

FailureOrder(r) ==
    /\ r.pc = "fail_order"
    /\ orders' = updateOrderStatus(orders, payments[r.pid].orderId,
                                   "payment_failed", "failed")
    /\ UNCHANGED <<payments, remoteOrders, findOnePick, checkoutStored>>
    /\ Step(r, Finish(r, "ok", r.pid, NoGateway))

\* ---- initiateRefund (lines 333-366) -------------------------------------
\* mutant: the amount is not compared with the payment's
RefundCheck_NoBound(p, amt) ==
    IF p.status # "completed" THEN "InvalidState" ELSE "ok"

\* mutant: a refunded payment passes the status check
RefundCheck_AllowsRefunded(p, amt) ==
    IF p.status \notin {"completed", "refunded"} THEN "InvalidState"
    ELSE IF amt > p.amount THEN "InvalidAmount"
    ELSE "ok"

\* lines 343-349: the status is checked first, then the amount
RefundCheck(p, amt) ==
    IF p.status # "completed" THEN "InvalidState"
    ELSE IF amt > p.amount THEN "InvalidAmount"
    ELSE "ok"

\* lines 338-349
StartRefund(pid, amt) ==
    /\ UNCHANGED <<payments, orders, remoteOrders, findOnePick, checkoutStored>>
    /\ LET p == getPaymentById(pid)
           r == [NewCall EXCEPT !.op = "refund", !.pid = pid, !.amt = amt,
                                !.seen = IF p = NoPayment THEN {}
                                         ELSE {payments[p].status}]
       IN Begin(IF p = NoPayment THEN Throw(r, "NotFound")
                  ELSE IF RefundCheck(payments[p], amt) # "ok"
                    THEN Throw(r, RefundCheck(payments[p], amt))
                  ELSE [r EXCEPT !.pc = "ref_ledger"])

\* mutant: the rejection of the ledger is swallowed
RefundLedger_IgnoresRejection(r) ==
    /\ r.pc = "ref_ledger"
    /\ UNCHANGED <<orders, remoteOrders, findOnePick, checkoutStored>>
    /\ IF RefundLegal(payments[r.pid])
       THEN /\ payments' = ledgerInitiateRefund(payments, r.pid, r.amt, "rtx")
            /\ Step(r, [r EXCEPT !.pc = "ref_order", !.wrote = TRUE,
                                        !.stamped = "refunded"])
       ELSE /\ payments' = payments
            /\ Step(r, [r EXCEPT !.pc = "ref_order", !.wrote = TRUE])

\* the ledger records the refund, or rejects it when the payment is no longer completed
RefundLedger(r) ==
    /\ r.pc = "ref_ledger"
    /\ UNCHANGED <<orders, remoteOrders, findOnePick, checkoutStored>>
    /\ IF RefundLegal(payments[r.pid])
       THEN /\ payments' = ledgerInitiateRefund(payments, r.pid, r.amt, "rtx")
            /\ Step(r, [r EXCEPT !.pc = "ref_order", !.wrote = TRUE,
                                        !.stamped = "refunded"])
       ELSE /\ payments' = payments
            /\ Step(r, [Throw(r, "LedgerRejected") EXCEPT !.wrote = TRUE])

RefundOrder(r) ==
    /\ r.pc = "ref_order"
    /\ orders' = updateOrderStatus(orders, payments[r.pid].orderId,
                                   "refunded", "refunded")
    /\ UNCHANGED <<payments, remoteOrders, findOnePick, checkoutStored>>
    /\ Step(r, Finish(r, "ok", r.pid, NoGateway))

\* ---- retryPayment (lines 368-393) ---------------------------------------
\* mutant: a completed payment is not refused
RetryRefused_Never(p) == FALSE

\* line 374
RetryRefused(p) == p.status = "completed"

\* lines 369-376
StartRetry(o) ==
    /\ UNCHANGED <<payments, orders, remoteOrders, findOnePick, checkoutStored>>
    /\ LET p == getPaymentByOrderId(o)
           r == [NewCall EXCEPT !.op = "retry", !.o = o, !.pid = p,
                                !.seen = IF p = NoPayment THEN {}
                                         ELSE {payments[p].status}]
       IN Begin(IF p = NoPayment THEN Throw(r, "NotFound")
                  ELSE IF RetryRefused(payments[p]) THEN Throw(r, "InvalidState")
                  ELSE [r EXCEPT !.pc = "ret_reset"])

\* mutant: the retry also puts the order back to payment_pending
RetryReset_WritesOrder(r) ==
    /\ r.pc = "ret_reset"
    /\ orders' = updateOrderStatus(orders, payments[r.pid].orderId,
                                   "payment_pending", "pending")
    /\ payments' = updatePaymentStatus(payments, r.pid, "pending")
    /\ UNCHANGED <<remoteOrders, findOnePick, checkoutStored>>
    /\ Step(r, [Finish(r, "ok", r.pid, NoGateway)
                  EXCEPT !.wrote = TRUE, !.stamped = "pending"])

\* lines 378-392: the status reset, then the checkout URL of the payment read earlier
RetryReset(r) ==
    /\ r.pc = "ret_reset"
    /\ UNCHANGED <<orders, remoteOrders, findOnePick, checkoutStored>>
    /\ IF ResetLegal(payments[r.pid])
       THEN /\ payments' = updatePaymentStatus(payments, r.pid, "pending")
            /\ Step(r, [(IF payments[r.pid].checkoutUrl # "none"
                         THEN Finish(r, "ok", r.pid, NoGateway)
                         ELSE Throw(r, "NoCheckoutAvailable"))
                          EXCEPT !.wrote = TRUE, !.stamped = "pending"])
       ELSE /\ payments' = payments
            /\ Step(r, [Throw(r, "LedgerRejected") EXCEPT !.wrote = TRUE])

\* ---- a failing order-ledger write ----------------------------------------
\* updateOrderStatus rejects (the ledger is unreachable): the call ends with the
\* error, and what it wrote to the payment ledger before stays. Inside the try of
\* initiateRazorpayPayment the error is caught and wrapped (lines 162-165).
OrderWritePcs == {"cod_order", "init_order", "ver_order", "suc_order",
                  "fail_order", "ref_order"}

OrderWriteFails(r) ==
    /\ r.pc \in OrderWritePcs
    /\ UNCHANGED <<payments, orders, remoteOrders, findOnePick, checkoutStored>>
    /\ Step(r, Throw(r, IF r.pc = "init_order" THEN "GatewayIntegrationFailure"
                        ELSE "LedgerFailure"))

\* ---- the response has been delivered: the slot is free again ------------
Return(r) ==
    /\ r.pc = "done"
    /\ calls' = calls (-) SetToBag({r})
    /\ UNCHANGED <<payments, orders, remoteOrders, findOnePick, checkoutStored,
                   lastSuccess, started>>

Next ==
    \/ \E o \in OrderArgs : StartCod(o)
    \/ \E r \in BagToSet(calls) : CpCreate(r)
    \/ \E r \in BagToSet(calls) : CpSetGw(r)
    \/ \E r \in BagToSet(calls) : CpMark(r)
    \/ \E r \in BagToSet(calls) : CpLink(r)
    \/ \E r \in BagToSet(calls) : CodOrder(r)
    \/ \E o \in OrderArgs : StartInitiate(o)
    \/ \E r \in BagToSet(calls) : InitCreateOrderOk(r)
    \/ \E r \in BagToSet(calls) : InitCreateOrderFail(r)
    \/ \E r \in BagToSet(calls) : InitOrder(r)
    \/ \E g \in GatewayArgs, t \in TxnIds, sig \in BOOLEAN :
          StartVerify(g, t, sig)
    \/ \E r \in BagToSet(calls) : VerifyMark(r)
    \/ \E r \in BagToSet(calls) : VerifyOrder(r)
    \/ \E ev \in SuccessEvents : StartSuccess(ev)
    \/ \E r \in BagToSet(calls) : SuccessMark(r)
    \/ \E r \in BagToSet(calls) : SuccessOrder(r)
    \/ \E ev \in FailureEvents : StartFailure(ev)
    \/ \E r \in BagToSet(calls) : FailureMark(r)
    \/ \E r \in BagToSet(calls) : FailureOrder(r)
    \/ \E p \in PaymentArgs, a \in RefundAmounts : StartRefund(p, a)
    \/ \E r \in BagToSet(calls) : RefundLedger(r)
    \/ \E r \in BagToSet(calls) : RefundOrder(r)
    \/ \E o \in OrderArgs : StartRetry(o)
    \/ \E r \in BagToSet(calls) : RetryReset(r)
    \/ \E r \in BagToSet(calls) : OrderWriteFails(r)
    \/ \E r \in BagToSet(calls) : Return(r)

Spec == Init /\ [][Next]_vars


\* =========================================================================
\* Properties
\* =========================================================================
Recs == BagToSet(calls)
OrderOf(p) == orders[payments[p].orderId]
RemoteOrdersFor(o) == {g \in 1..Len(remoteOrders) : remoteOrders[g] = o}
\* the call records a step has produced: the call received, or the call that moved
Arrived == {x \in BagToSet(calls') : CopiesIn(x, calls') > CopiesIn(x, calls)}
\* the payment status that goes with an order status, and with an order write
PaymentStatusFor(orderStatus) ==
    IF orderStatus = "confirmed" THEN "completed"
    ELSE IF orderStatus = "payment_failed" THEN "failed"
    ELSE orderStatus
StampBefore(pc) ==
    IF pc \in {"cod_order", "ver_order", "suc_order"} THEN "completed"
    ELSE IF pc = "fail_order" THEN "failed"
    ELSE "refunded"

\* C1: whenever no operation is mid-execution, every completed payment has a
\* confirmed order with paymentStatus completed, every failed payment an order
\* in payment_failed, every refunded payment an order in refunded.
C1_CrossEntityConsistency ==
    Quiescent =>
        \A p \in PaymentIds :
            /\ payments[p].status = "completed" =>
                   OrderOf(p).status = "confirmed" /\ OrderOf(p).paymentStatus = "completed"
            /\ payments[p].status = "failed" => OrderOf(p).status = "payment_failed"
            /\ payments[p].status = "refunded" => OrderOf(p).status = "refunded"

\* C2: a success event delivered again, after a first delivery of it, served with
\* no other request in flight, has finished with its payment completed and while
\* no ledger has changed since, ends at once: it returns that same completed
\* payment and issues no ledger write.
C2_IdempotentCompletion ==
    \A r \in Recs :
        r.op = "success" /\ r.dup # NoPayment =>
            /\ r.pc = "done"
            /\ r.result = "ok"
            /\ r.ret = r.dup
            /\ ~r.wrote
            /\ payments[r.dup].status = "completed"

C2_Witness ==
    \E r \in Recs :
        /\ r.op = "success" /\ r.dup # NoPayment /\ r.pc = "done" /\ r.result = "ok"
        /\ OrderOf(r.dup).status = "confirmed"

\* C3: of the verify and success calls that race on one pending payment, only the
\* one whose markCompleted performed the completing write goes on to confirm the
\* order; the other has seen completed and has ended.
C3_SingleCompletingWrite ==
    \A r \in Recs :
        r.pc \in {"ver_order", "suc_order"} /\ payments[r.pid].provider = "razorpay" =>
            r.won

\* C4: the gateway adapter creates at most one remote order for an order.
C4_NoDoubleRemoteOrder ==
    \A o \in OrderIds : Cardinality(RemoteOrdersFor(o)) <= 1

\* C5: an order has at most one pending payment (stated for the states in which
\* no operation is mid-execution, where a pending payment is there to stay).
C5_OneLiveAttempt ==
    Quiescent =>
    \A o \in OrderIds :
        Cardinality({p \in PaymentIds : /\ payments[p].orderId = o
                                        /\ payments[p].status = "pending"}) <= 1

\* C6: a processCodPayment or initiateRazorpayPayment request received (with no
\* other request in flight, then or since) when its order already has a completed or refunded
\* payment is rejected at once: no record, no adapter call, no order write.
C6_NoSecondPayment ==
    \A r \in Recs :
        (/\ r.op \in {"cod", "initiate"}
         /\ r.alone
         /\ r.seen \cap {"completed", "refunded"} # {}) =>
            r.pc = "done" /\ r.result # "ok" /\ ~r.wrote

\* C7: a processCodPayment request received when its order already has a payment,
\* in any status, fails with DuplicatePayment and issues no ledger write.
C7_CodUniqueness ==
    \A r \in Recs :
        r.op = "cod" /\ r.seen # {} =>
            r.pc = "done" /\ r.result = "DuplicatePayment" /\ ~r.wrote

C7_Witness ==
    \E r \in Recs :
        /\ r.op = "cod" /\ r.pc = "done" /\ r.result = "DuplicatePayment"
        /\ \E p \in PaymentIds : /\ payments[p].orderId = r.o
                                 /\ payments[p].provider = "cod"
                                 /\ payments[p].status = "completed"
        /\ orders[r.o].status = "confirmed" /\ orders[r.o].paymentStatus = "completed"
        /\ Len(payments) = 1

\* C8 as stated: a refund request for more than the amount of an existing payment
\* fails with InvalidAmount, whatever the status of the payment, and writes nothing
\* (stated for the requests received with no other request in flight).
C8_RefundBoundAnyStatus ==
    \A r \in Recs :
        r.op = "refund" /\ r.alone /\ r.seen # {} /\ r.amt > payments[r.pid].amount =>
            r.pc = "done" /\ r.result = "InvalidAmount" /\ ~r.wrote

\* C8 as amended: a refund request for more than the amount of an existing payment
\* always fails and writes nothing: with InvalidAmount when the payment is
\* completed, with InvalidState when it is pending, failed or refunded.
C8_RefundBound ==
    \A r \in Recs :
        r.op = "refund" /\ r.seen # {} /\ r.amt > payments[r.pid].amount =>
            /\ r.pc = "done"
            /\ r.result = IF "completed" \in r.seen THEN "InvalidAmount" ELSE "InvalidState"
            /\ ~r.wrote

C8_Witness ==
    \E r \in Recs :
        /\ r.op = "refund" /\ r.pc = "done" /\ r.result = "InvalidAmount"
        /\ r.amt > payments[r.pid].amount
        /\ payments[r.pid].status = "completed"
        /\ payments[r.pid].refundAmount = 0

\* C9: a refund request for a payment that is pending, failed or refunded fails
\* with InvalidState and issues no ledger write, so the refund amount recorded by
\* an earlier refund stays.
C9_RefundOnlyFromCompleted ==
    \A r \in Recs :
        r.op = "refund" /\ r.seen # {} /\ "completed" \notin r.seen =>
            r.pc = "done" /\ r.result = "InvalidState" /\ ~r.wrote

C9_Witness ==
    \E r \in Recs :
        /\ r.op = "refund" /\ r.pc = "done" /\ r.result = "InvalidState"
        /\ payments[r.pid].status = "refunded"
        /\ r.amt <= payments[r.pid].amount
        /\ payments[r.pid].refundAmount # r.amt
        /\ payments[r.pid].refundAmount > 0

\* C10: a completed payment stays completed or becomes refunded.
C10_CompletedOnlyToRefunded ==
    [][\A p \in PaymentIds :
          payments[p].status = "completed" =>
              payments'[p].status \in {"completed", "refunded"}]_vars

\* C11: a refunded payment stays refunded, and a payment becomes refunded only
\* from completed.
C11_RefundedIsSink ==
    [][\A p \in PaymentIds :
          /\ payments[p].status = "refunded" => payments'[p].status = "refunded"
          /\ (payments[p].status # "refunded" /\ payments'[p].status = "refunded")
                 => payments[p].status = "completed"]_vars

\* C12: a retryPayment call served with no other request in flight, on an order
\* whose payment is failed, leaves the payment pending and returns the payment id
\* (with the stored checkout URL) when the payment has a checkout URL, and fails
\* with NoCheckoutAvailable otherwise; on a completed payment it fails with
\* InvalidState, writes nothing, and the payment stays completed.
C12_RetryAfterFailure ==
    \A r \in Recs :
        r.op = "retry" /\ r.alone /\ r.pc = "done" =>
            /\ r.seen = {"failed"} =>
                   /\ payments[r.pid].status = "pending"
                   /\ IF payments[r.pid].checkoutUrl # "none"
                      THEN r.result = "ok" /\ r.ret = r.pid
                      ELSE r.result = "NoCheckoutAvailable"
            /\ r.seen = {"completed"} =>
                   /\ r.result = "InvalidState"
                   /\ ~r.wrote
                   /\ payments[r.pid].status = "completed"

C12_Witness ==
    \E r \in Recs :
        /\ r.op = "retry" /\ r.alone /\ r.pc = "done" /\ r.seen = {"failed"}
        /\ r.result = "ok" /\ r.ret = r.pid
        /\ payments[r.pid].status = "pending"
        /\ payments[r.pid].checkoutUrl = "url"

\* C13: a verifyRazorpayPayment request whose signature the adapter finds invalid
\* ends at once with InvalidSignature: no payment was looked up, and every payment
\* and every order is as before the request.
C13_InvalidSignatureChangesNothing ==
    [][\A x \in Arrived :
          x.op = "verify" /\ ~x.sig =>
              /\ x.pc = "done" /\ x.result = "InvalidSignature"
              /\ x.pid = NoPayment /\ ~x.wrote
              /\ payments' = payments /\ orders' = orders]_vars

C13_Witness ==
    \E r \in Recs :
        /\ r.op = "verify" /\ ~r.sig /\ r.pc = "done" /\ r.result = "InvalidSignature"
        /\ \E p \in PaymentIds : /\ payments[p].razorpayOrderId = r.g
                                 /\ payments[p].status = "pending"

\* C14: an initiateRazorpayPayment call that has failed with the gateway-integration
\* error has created no payment record and has written nothing to either ledger.
C14_AllOrNothingInitiation ==
    \A r \in Recs :
        r.op = "initiate" /\ r.result = "GatewayIntegrationFailure" =>
            r.pid = NoPayment /\ ~r.wrote

\* C15: a confirmed order only ever becomes refunded, and a cancelled or refunded
\* order never changes its status.
C15_TerminalOrderStatuses ==
    [][\A o \in OrderIds :
          /\ orders[o].status = "confirmed" =>
                 orders'[o].status \in {"confirmed", "refunded"}
          /\ orders[o].status \in {"cancelled", "refunded"} =>
                 orders'[o].status = orders[o].status]_vars

\* C16: a handlePaymentSuccess or handlePaymentFailure request whose first
\* identifying field (checkout id, else order number, else transaction id)
\* identifies no payment ends at once with NotFound and writes nothing, whatever
\* the other fields of the event would resolve to.
C16_SingleLookupStrategy ==
    \A r \in Recs :
        r.op \in {"success", "failure"} /\ r.seen = {} =>
            r.pc = "done" /\ r.result = "NotFound" /\ ~r.wrote

C16_Witness ==
    \E r \in Recs :
        /\ r.op \in {"success", "failure"} /\ r.pc = "done" /\ r.result = "NotFound"
        /\ r.ev.checkoutId # "none"
        /\ \E p \in PaymentIds : /\ orderNumber(payments[p].orderId) = r.ev.orderNumber
                                 /\ payments[p].transactionId = r.ev.transactionId

\* C17: a call that is about to write the order (in processCodPayment,
\* verifyRazorpayPayment, handlePaymentSuccess, handlePaymentFailure or
\* initiateRefund) has had its write of the matching status accepted by the payment
\* ledger; and whenever an order becomes confirmed, payment_failed or refunded, the
\* step is the end of a call that had written the matching status to a payment of
\* that order.
C17_OrderWriteAfterPaymentWrite ==
    [][/\ \A x \in Arrived :
             x.pc \in OrderWritePcs \ {"init_order"} => x.stamped = StampBefore(x.pc)
       /\ \A o \in OrderIds :
             (/\ orders'[o].status # orders[o].status
              /\ orders'[o].status \in {"confirmed", "payment_failed", "refunded"}) =>
                 \E x \in Arrived :
                     /\ x.pc = "done" /\ x.result = "ok"
                     /\ x.stamped = PaymentStatusFor(orders'[o].status)
                     /\ payments[x.pid].orderId = o]_vars

C17_Witness ==
    \E r \in Recs :
        /\ r.op = "refund" /\ r.pc = "done" /\ r.result = "LedgerRejected"
        /\ r.stamped = "none"
        /\ payments[r.pid].status = "failed"
        /\ OrderOf(r.pid).status # "refunded"

\* C18: when a verifyRazorpayPayment or handlePaymentSuccess call, served with no
\* other request in flight, has returned a payment that is the only payment of its
\* order, that order is confirmed with paymentStatus completed, also when an earlier
\* completion attempt had stopped between its payment write and its order write.
C18_OrderRecheckedOnCompletion ==
    \A r \in Recs :
        (/\ r.op \in {"verify", "success"} /\ r.alone
         /\ r.pc = "done" /\ r.result = "ok"
         /\ Cardinality({p \in PaymentIds :
                             payments[p].orderId = payments[r.ret].orderId}) = 1) =>
            /\ OrderOf(r.ret).status = "confirmed"
            /\ OrderOf(r.ret).paymentStatus = "completed"

\* C19: no step of a retryPayment call changes the order ledger, and when the call
\* ends after its reset, with the checkout URL or with NoCheckoutAvailable, the
\* payment is pending in the ledger while the order is what it was before.
C19_RetryNeverWritesOrder ==
    [][\A x \in Arrived :
          x.op = "retry" =>
              /\ orders' = orders
              /\ (x.pc = "done" /\ x.result \in {"ok", "NoCheckoutAvailable"}) =>
                      payments'[x.pid].status = "pending"]_vars

C19_Witness ==
    \E r \in Recs :
        /\ r.op = "retry" /\ r.pc = "done" /\ r.result = "NoCheckoutAvailable"
        /\ payments[r.pid].status = "pending"
        /\ OrderOf(r.pid).status = "payment_failed"
        /\ OrderOf(r.pid).paymentStatus = "failed"

\* C20: the step at which any operation ends with NotFound leaves both ledgers and
\* the gateway's orders as they were, and the call has until then written nothing,
\* created no payment and, for initiateRazorpayPayment, not asked the gateway for
\* an order.
C20_LookupMissChangesNothing ==
    [][\A x \in Arrived :
          x.result = "NotFound" =>
              /\ payments' = payments
              /\ orders' = orders
              /\ remoteOrders' = remoteOrders
              /\ ~x.wrote /\ x.stamped = "none"
              /\ x.op \in {"cod", "initiate"} => x.pid = NoPayment
              /\ x.op = "initiate" => x.g = NoGateway]_vars

C20_Witness ==
    \E r \in Recs :
        /\ r.op = "initiate" /\ r.pc = "done" /\ r.result = "NotFound"
        /\ getOrderById(r.o) = NoOrder
        /\ Len(payments) >= 1
        /\ remoteOrders = << >>

====
